---- MODULE Spec2Model ----
(***************************************************************************)
(* Model of apify/scrapy/requests.py: the two converters                   *)
(* to_apify_request (Scrapy Request -> Apify request dict) and             *)
(* to_scrapy_request (Apify request dict -> Scrapy Request), driven by a   *)
(* crawler that creates requests, a request queue that assigns ids, and    *)
(* records that arrive from outside the crawler.                           *)
(*                                                                         *)
(* Python values are tagged records, one field naming the Python type:     *)
(*   [str |-> "text"]   a str holding plain text                           *)
(*   [b64 |-> p]        a str holding base64(pickle.dumps(p))              *)
(*   [int |-> 0]        an int                                             *)
(*   [dict |-> f]       a dict, f a function from keys to values           *)
(*   [list |-> s]       a list                                             *)
(*   [none |-> TRUE]    None                                               *)
(*   [Headers |-> f]    scrapy.http.headers.Headers: name -> list of values*)
(*   [fn |-> "parse"]   a bound method of the spider                       *)
(* A Request is a record of its attributes.                                *)
(***************************************************************************)
EXTENDS Integers, Sequences, FiniteSets, TLC

VARIABLES
    req,     \* the Request the crawler holds, or None
    orig,    \* req as it was before the last to_apify_request call
    rec,     \* the Apify request (or other value) on the queue side, or None
    out,     \* the last operation and how it ended
    direct,  \* rec is what to_apify_request(orig) returned, untouched since
    cycles,  \* conversions there and back completed in this run
    base     \* snapshot nesting depth of what the run started from

vars == <<req, orig, rec, out, direct, cycles, base>>

\* ------------------------------------------------------------- bounds
MaxCycles == 3
MaxHeaderValues == 2

\* ------------------------------------------------------ Python values
PyStr(s) == [str |-> s]
PyInt(i) == [int |-> i]
PyDict(f) == [dict |-> f]
PyNone == [none |-> TRUE]
EmptyDict == <<>>

IsStr(v) == "str" \in DOMAIN v \/ "b64" \in DOMAIN v
IsDict(v) == "dict" \in DOMAIN v
IsHeaders(v) == "Headers" \in DOMAIN v
IsRequest(v) == "url" \in DOMAIN v

\* Python truthiness of a value, as `if x:` tests it.
Truthy(v) ==
    IF "str" \in DOMAIN v THEN v.str # ""
    ELSE IF "int" \in DOMAIN v THEN v.int # 0
    ELSE IF "none" \in DOMAIN v THEN FALSE
    ELSE IF "dict" \in DOMAIN v THEN DOMAIN v.dict # {}
    ELSE IF "list" \in DOMAIN v THEN v.list # <<>>
    ELSE TRUE

\* d[k] = v on a dict
Put(d, k, v) == [x \in DOMAIN d \cup {k} |-> IF x = k THEN v ELSE d[x]]

\* ", ".join / b",".join over a sequence of strings
RECURSIVE Join(_, _)
Join(s, sep) ==
    IF s = <<>> THEN ""
    ELSE IF Len(s) = 1 THEN s[1]
    ELSE s[1] \o sep \o Join(Tail(s), sep)

\* --------------------------------------------------- scrapy, as called
\* Headers.normkey: header names are stored title-cased.
NormKey(k) == IF k = "accept" THEN "Accept" ELSE k

\* Headers.to_unicode_dict(): every header's values joined with ",".
to_unicode_dict(h) == [k \in DOMAIN h |-> Join(h[k], ",")]

\* Headers(d) for a dict of name -> str: names normalised, each value a
\* one-element list.
HeadersOfStrs(d) ==
    [Headers |-> [k \in {NormKey(x) : x \in DOMAIN d} |->
        LET x == CHOOSE y \in DOMAIN d : NormKey(y) = k IN <<d[x]>>]]

\* Headers(d) for a dict of name -> list of values (what dict(Headers) gives).
HeadersOfLists(d) ==
    [Headers |-> [k \in {NormKey(x) : x \in DOMAIN d} |->
        LET x == CHOOSE y \in DOMAIN d : NormKey(y) = k IN d[x]]]

\* Request.to_dict(spider=spider): the attributes as a dict; headers through
\* dict(self.headers), which raises TypeError for a value that is no mapping;
\* a callback that is a spider method is exported as its name.
to_dict(r) ==
    IF "none" \in DOMAIN r.headers
    THEN [raised |-> "TypeError", ret |-> PyNone]
    ELSE [raised |-> "none",
          ret |-> PyDict([url |-> r.url,
                        method |-> r.method,
                        headers |-> IF IsHeaders(r.headers)
                                    THEN [lists |-> r.headers.Headers]
                                    ELSE [strs |-> r.headers.dict],
                        meta |-> r.meta,
                        callback |-> IF "fn" \in DOMAIN r.callback
                                     THEN PyStr(r.callback.fn) ELSE r.callback,
                        priority |-> r.priority])]

\* request_from_dict(d, spider=spider): Request(**d) with the callback name
\* resolved to the spider's method and the headers made a Headers.
request_from_dict(d) ==
    [url |-> d.url,
     method |-> d.method,
     headers |-> IF "lists" \in DOMAIN d.headers
                 THEN HeadersOfLists(d.headers.lists)
                 ELSE HeadersOfStrs(d.headers.strs),
     meta |-> d.meta,
     callback |-> IF "str" \in DOMAIN d.callback
                  THEN [fn |-> d.callback.str] ELSE d.callback,
     priority |-> d.priority]

\* Request(url=..., method=..., meta=...): the other attributes at their defaults.
NewRequestObject(url, method, meta) ==
    [url |-> url, method |-> method, headers |-> [Headers |-> EmptyDict],
     meta |-> meta, callback |-> PyNone, priority |-> 0]

\* codecs.encode(pickle.dumps(d), 'base64').decode(): a str, not the dict.
Encode(d) == [b64 |-> d]

\* pickle.loads(codecs.decode(s.encode(), 'base64')): the pickled value back,
\* or an error of the decoder for a text that is no base64 pickle.
Decode(s) ==
    IF "b64" \in DOMAIN s THEN [raised |-> "none", ret |-> s.b64]
    ELSE [raised |-> "DecodeError", ret |-> PyNone]

\* ---------------------------------------------------- to_apify_request
\* lines 38-42: url, method and userData; userData is meta['userData'] itself
\* when the request has one, else a new empty dict.
BaseFields(r) ==
    [k \in {"url", "method", "userData"} |->
        IF k = "url" THEN PyStr(r.url)
        ELSE IF k = "method" THEN PyStr(r.method)
        ELSE IF "userData" \in DOMAIN r.meta THEN r.meta["userData"]
        ELSE PyDict(EmptyDict)]

\* lines 44-49: the flattened headers, only for a Headers instance.
HeadersField(r, ar) ==
    IF IsHeaders(r.headers)
    THEN Put(ar, "headers", PyDict(to_unicode_dict(r.headers.Headers)))
    ELSE ar

\* lines 47-49: one warning when the headers are no Headers instance.
HeadersWarnings(r) == IF IsHeaders(r.headers) THEN 0 ELSE 1

\* the identity field copied whenever the meta key is present
IdentityField_IfPresent(r, ar, metaKey, field) ==
    IF metaKey \in DOMAIN r.meta
    THEN Put(ar, field, r.meta[metaKey])
    ELSE ar

\* lines 52-53 and 56-57: `if meta.get(key): apify_request[field] = meta[key]`
IdentityField(r, ar, metaKey, field) ==
    IF metaKey \in DOMAIN r.meta /\ Truthy(r.meta[metaKey])
    THEN Put(ar, field, r.meta[metaKey])
    ELSE ar

\* line 66: apify_request['userData']['scrapy_request'] = encoded
WithSnapshot(userData, encoded) ==
    PyDict(Put(userData.dict, "scrapy_request", encoded))

\* The request object after the call. The dict that line 66 writes into is
\* the one meta['userData'] refers to when the request has one (line 41).
RequestAfter(r, userData) ==
    IF "userData" \in DOMAIN r.meta
    THEN [r EXCEPT !.meta = Put(r.meta, "userData", userData)]
    ELSE r

\* to_apify_request(scrapy_request, spider): what is raised, what is returned,
\* how many warnings were logged, and the argument as the call leaves it.
to_apify_request(r) ==
    IF ~IsRequest(r)
    THEN [raised |-> "TypeError", ret |-> PyNone, warnings |-> 0, request |-> r]
    ELSE
    LET ar1 == BaseFields(r)
        ar2 == HeadersField(r, ar1)
        ar3 == IdentityField(r, ar2, "apify_request_id", "id")
        ar4 == IdentityField(r, ar3, "apify_request_unique_key", "uniqueKey")
        exported == to_dict(r)
    IN  IF exported.raised # "none"
        THEN [raised |-> exported.raised, ret |-> PyNone,
              warnings |-> HeadersWarnings(r), request |-> r]
        ELSE LET userData == WithSnapshot(ar4["userData"], Encode(exported.ret))
             IN  [raised |-> "none",
                  ret |-> PyDict(Put(ar4, "userData", userData)),
                  warnings |-> HeadersWarnings(r),
                  request |-> RequestAfter(r, userData)]

\* --------------------------------------------------- to_scrapy_request
required_keys == <<"url", "method", "id", "uniqueKey">>

\* only the first missing key reported
missing_keys_First(ar) ==
    LET all == SelectSeq(required_keys, LAMBDA k : k \notin DOMAIN ar)
    IN  IF all = <<>> THEN <<>> ELSE <<all[1]>>

\* line 90: the required keys the record lacks, in the order of required_keys
missing_keys(ar) == SelectSeq(required_keys, LAMBDA k : k \notin DOMAIN ar)

Repr(k) == "'" \o k \o "'"

\* line 93: the ValueError's message
MissingMessage(missing) ==
    "apify_request must contain "
        \o Join([i \in 1..Len(missing) |-> Repr(missing[i])], ", ")
        \o " key(s)"

\* line 99: the record carries a snapshot
HasSnapshot(ar) ==
    "userData" \in DOMAIN ar /\ "scrapy_request" \in DOMAIN ar["userData"].dict

\* the identity fields written only where the meta has none (setdefault)
IdentityMeta_KeepExisting(meta, ar) ==
    LET m1 == IF "apify_request_id" \in DOMAIN meta THEN meta
              ELSE Put(meta, "apify_request_id", ar["id"])
    IN  IF "apify_request_unique_key" \in DOMAIN m1 THEN m1
        ELSE Put(m1, "apify_request_unique_key", ar["uniqueKey"])

\* lines 120-122: the identity fields of the record written over the meta
IdentityMeta(meta, ar) ==
    Put(Put(meta, "apify_request_id", ar["id"]),
        "apify_request_unique_key", ar["uniqueKey"])

\* the new request without its unique key
Create_NoUniqueKey(ar) ==
    [raised |-> "none",
     ret |-> NewRequestObject(ar["url"].str, ar["method"].str,
                              Put(EmptyDict, "apify_request_id", ar["id"]))]

\* lines 128-135: a new request from the record's url and method
Create(ar) ==
    [raised |-> "none",
     ret |-> NewRequestObject(ar["url"].str, ar["method"].str,
                              IdentityMeta(EmptyDict, ar))]

\* a snapshot that is no string treated as no snapshot
Restore_FallBack(ar) ==
    LET encoded == ar["userData"].dict["scrapy_request"]
    IN  IF ~IsStr(encoded)
        THEN Create(ar)
        ELSE LET decoded == Decode(encoded)
             IN  IF decoded.raised # "none"
                 THEN [raised |-> decoded.raised, ret |-> PyNone]
                 ELSE IF ~IsDict(decoded.ret)
                 THEN [raised |-> "TypeError", ret |-> PyNone]
                 ELSE LET r == request_from_dict(decoded.ret.dict)
                      IN  [raised |-> "none",
                           ret |-> [r EXCEPT !.meta = IdentityMeta(r.meta, ar)]]

\* lines 105-122: the request restored from the snapshot
Restore(ar) ==
    LET encoded == ar["userData"].dict["scrapy_request"]
    IN  IF ~IsStr(encoded)
        THEN [raised |-> "TypeError", ret |-> PyNone]
        ELSE LET decoded == Decode(encoded)
             IN  IF decoded.raised # "none"
                 THEN [raised |-> decoded.raised, ret |-> PyNone]
                 ELSE IF ~IsDict(decoded.ret)
                 THEN [raised |-> "TypeError", ret |-> PyNone]
                 ELSE LET r == request_from_dict(decoded.ret.dict)
                      IN  [raised |-> "none",
                           ret |-> [r EXCEPT !.meta = IdentityMeta(r.meta, ar)]]

\* the record's dict assigned as it is, not made a Headers
ApplyHeaders_PlainDict(r, ar) ==
    IF "headers" \in DOMAIN ar /\ IsDict(ar["headers"])
    THEN [r EXCEPT !.headers = ar["headers"]]
    ELSE r

\* lines 138-144: the record's headers, when it has some and they are a dict
ApplyHeaders(r, ar) ==
    IF "headers" \in DOMAIN ar /\ IsDict(ar["headers"])
    THEN [r EXCEPT !.headers = HeadersOfStrs(ar["headers"].dict)]
    ELSE r

HeadersDictWarnings(ar) ==
    IF "headers" \in DOMAIN ar /\ ~IsDict(ar["headers"]) THEN 1 ELSE 0

\* the record's userData merged into the meta['userData'] already there
ApplyUserData_Merge(r, ar) ==
    IF "userData" \notin DOMAIN ar THEN r
    ELSE IF "userData" \notin DOMAIN r.meta
    THEN [r EXCEPT !.meta = Put(r.meta, "userData", ar["userData"])]
    ELSE LET old == r.meta["userData"].dict
             new == ar["userData"].dict
         IN  [r EXCEPT !.meta = Put(r.meta, "userData",
                PyDict([k \in DOMAIN old \cup DOMAIN new |->
                          IF k \in DOMAIN new THEN new[k] ELSE old[k]]))]

\* the record's userData never attached
ApplyUserData_Skip(r, ar) == r

\* lines 147-148: the record's userData into meta['userData']
ApplyUserData(r, ar) ==
    IF "userData" \in DOMAIN ar
    THEN [r EXCEPT !.meta = Put(r.meta, "userData", ar["userData"])]
    ELSE r

\* to_scrapy_request(apify_request, spider)
to_scrapy_request(a) ==
    IF ~IsDict(a)
    THEN [raised |-> "TypeError", msg |-> "apify_request must be a dictionary",
          ret |-> PyNone, warnings |-> 0]
    ELSE LET ar == a.dict
             missing == missing_keys(ar)
         IN  IF missing # <<>>
             THEN [raised |-> "ValueError", msg |-> MissingMessage(missing),
                   ret |-> PyNone, warnings |-> 0]
             ELSE LET built == IF HasSnapshot(ar) THEN Restore(ar) ELSE Create(ar)
                  IN  IF built.raised # "none"
                      THEN [raised |-> built.raised, msg |-> "", ret |-> PyNone,
                            warnings |-> 0]
                      ELSE [raised |-> "none", msg |-> "",
                            ret |-> ApplyUserData(ApplyHeaders(built.ret, ar), ar),
                            warnings |-> HeadersDictWarnings(ar)]

\* ------------------------------------------------- inputs of the model
Urls == {"http://x"}
Methods == {"GET", "POST"}
HeaderTexts == {"a", "b"}

\* the value lists a Headers holds for one header
HeaderLists ==
    UNION {[1..n -> HeaderTexts] : n \in 0..MaxHeaderValues}

\* what the headers attribute of a request can hold: a Headers (the
\* constructor makes one), or what a caller assigned to it later
HeaderValues ==
    {[Headers |-> EmptyDict]}
        \cup {[Headers |-> [k \in {"Accept"} |-> l]] : l \in HeaderLists}
        \cup {PyDict([k \in {"Accept"} |-> "a"]), PyNone}

Absent == [absent |-> TRUE]

MetaIds == {Absent, PyStr(""), PyInt(0), PyStr("old")}
MetaUniqueKeys == {Absent, PyStr(""), PyStr("k0")}
MetaUserData ==
    {Absent, PyDict(EmptyDict), PyDict([k \in {"label"} |-> PyStr("v")])}
MetaDepths == {Absent, PyInt(1)}

\* the dict holding the given keys, a key left out when its value is Absent
DictOf(keys, vals) ==
    [k \in {x \in keys : vals[x] # Absent} |-> vals[k]]

Metas ==
    {DictOf({"apify_request_id", "apify_request_unique_key", "userData", "depth"},
            [k \in {"apify_request_id", "apify_request_unique_key", "userData", "depth"} |->
                IF k = "apify_request_id" THEN i
                ELSE IF k = "apify_request_unique_key" THEN u
                ELSE IF k = "userData" THEN d
                ELSE p]) :
        i \in MetaIds, u \in MetaUniqueKeys, d \in MetaUserData, p \in MetaDepths}

Callbacks == {PyNone, [fn |-> "parse"]}

Requests ==
    {[url |-> u, method |-> m, headers |-> h, meta |-> mt, callback |-> c,
      priority |-> 0] :
        u \in Urls, m \in Methods, h \in HeaderValues, mt \in Metas, c \in Callbacks}

\* what a caller can pass to to_apify_request
ApifyArgs == Requests \cup {PyDict(EmptyDict)}

\* a request some crawler converted earlier; its snapshot arrives in a record
\* whose userData no longer holds the request's own "label"
SnapshottedRequest ==
    [url |-> "http://x", method |-> "GET",
     headers |-> [Headers |-> [k \in {"Accept"} |-> <<"a">>]],
     meta |-> [k \in {"apify_request_id", "userData", "depth"} |->
                IF k = "apify_request_id" THEN PyStr("old")
                ELSE IF k = "userData" THEN PyDict([x \in {"label"} |-> PyStr("v")])
                ELSE PyInt(1)],
     callback |-> [fn |-> "parse"], priority |-> 0]

SeedUserData ==
    {Absent, PyDict(EmptyDict), PyDict([k \in {"label"} |-> PyStr("v")]),
     PyDict([k \in {"scrapy_request"} |-> PyInt(42)]),
     PyDict([k \in {"scrapy_request"} |-> PyStr("garbage")]),
     PyDict([k \in {"scrapy_request"} |-> Encode([list |-> <<>>])]),
     PyDict([k \in {"scrapy_request"} |-> Encode(to_dict(SnapshottedRequest).ret)])}

SeedHeaders == {Absent, PyDict([k \in {"accept"} |-> "a"]), PyStr("x")}

SeedKeys == {"url", "method", "id", "uniqueKey", "userData", "headers"}

\* what a caller can pass to to_scrapy_request: records with any of the
\* required keys left out, and a value that is no dict
SeedArgs ==
    {PyDict(DictOf(SeedKeys \ gone,
            [k \in SeedKeys |->
                IF k = "url" THEN PyStr("http://x")
                ELSE IF k = "method" THEN PyStr("GET")
                ELSE IF k = "id" THEN PyStr("1")
                ELSE IF k = "uniqueKey" THEN PyStr("k1")
                ELSE IF k = "userData" THEN d
                ELSE h])) :
        gone \in SUBSET {"url", "method", "id", "uniqueKey"},
        d \in SeedUserData, h \in SeedHeaders}
    \cup {[list |-> <<>>]}

\* the identity the request queue gives a record
QueueId == PyStr("q1")
QueueUniqueKey == PyStr("uk1")

\* How many snapshots are nested in a userData dict: the snapshot under
\* 'scrapy_request', the snapshot inside that snapshot's meta['userData'], ...
RECURSIVE SnapshotDepth(_)
SnapshotDepth(userData) ==
    IF "scrapy_request" \notin DOMAIN userData.dict THEN 0
    ELSE LET s == userData.dict["scrapy_request"]
         IN  IF "b64" \notin DOMAIN s \/ ~IsDict(s.b64) THEN 0
             ELSE IF "userData" \notin DOMAIN s.b64.dict.meta THEN 1
             ELSE 1 + SnapshotDepth(s.b64.dict.meta["userData"])

\* ------------------------------------------------------ state machine
Outcome(op, raised, msg, warnings) ==
    [op |-> op, raised |-> raised, msg |-> msg, warnings |-> warnings]

Init ==
    /\ req = PyNone
    /\ orig = PyNone
    /\ rec = PyNone
    /\ out = Outcome("none", "none", "", 0)
    /\ direct = FALSE
    /\ cycles = 0
    /\ base = 0

\* The crawler creates a request.
NewRequest ==
    /\ out.op = "none"
    /\ \E r \in ApifyArgs :
        /\ req' = r
        /\ orig' = PyNone
        /\ rec' = PyNone
        /\ out' = Outcome("new", "none", "", 0)
        /\ direct' = FALSE
        /\ cycles' = 0
        /\ base' = 0

\* A record reaches the converter from outside the crawler.
SeedRecord ==
    /\ out.op = "none"
    /\ \E a \in SeedArgs :
        /\ rec' = a
        /\ req' = PyNone
        /\ orig' = PyNone
        /\ out' = Outcome("seed", "none", "", 0)
        /\ direct' = FALSE
        /\ cycles' = 0
        /\ base' = IF IsDict(a) /\ "userData" \in DOMAIN a.dict
                   THEN SnapshotDepth(a.dict["userData"]) ELSE 0

\* The crawler hands its request to to_apify_request.
ToApifyRequest ==
    /\ req # PyNone
    /\ out.op \in {"new", "to_scrapy_request"}
    /\ cycles < MaxCycles
    /\ LET res == to_apify_request(req)
       IN  /\ orig' = req
           /\ req' = res.request
           /\ rec' = res.ret
           /\ out' = Outcome("to_apify_request", res.raised, "", res.warnings)
           /\ direct' = (res.raised = "none")
    /\ UNCHANGED <<cycles, base>>

\* The request queue stores the record: it gives it an id and a unique key
\* when it has none, and may give it new ones.
Enqueue ==
    /\ out.op = "to_apify_request"
    /\ out.raised = "none"
    /\ \E reassign \in BOOLEAN :
        LET ar == rec.dict
            withId == IF reassign \/ "id" \notin DOMAIN ar
                      THEN Put(ar, "id", QueueId) ELSE ar
            withKey == IF reassign \/ "uniqueKey" \notin DOMAIN ar
                       THEN Put(withId, "uniqueKey", QueueUniqueKey) ELSE withId
        IN  rec' = PyDict(withKey)
    /\ out' = Outcome("enqueue", "none", "", 0)
    /\ direct' = FALSE
    /\ UNCHANGED <<req, orig, cycles, base>>

\* A record is handed to to_scrapy_request.
ToScrapyRequest ==
    /\ \/ out.op \in {"enqueue", "seed"}
       \/ out.op = "to_apify_request" /\ out.raised = "none"
    /\ LET res == to_scrapy_request(rec)
       IN  /\ req' = res.ret
           /\ out' = Outcome("to_scrapy_request", res.raised, res.msg, res.warnings)
           /\ cycles' = IF res.raised = "none" /\ orig # PyNone
                        THEN cycles + 1 ELSE cycles
    /\ UNCHANGED <<orig, rec, direct, base>>

Next ==
    \/ NewRequest
    \/ SeedRecord
    \/ ToApifyRequest
    \/ Enqueue
    \/ ToScrapyRequest

Spec == Init /\ [][Next]_vars

\* ------------------------------------------------------------- claims
IdentityKeys == {"apify_request_id", "apify_request_unique_key"}
RequiredKeySet == {"url", "method", "id", "uniqueKey"}

Without(d, keys) == [k \in DOMAIN d \ keys |-> d[k]]

\* s holds t as a substring
Contains(s, t) ==
    \E i \in 1..(Len(s) - Len(t) + 1) : SubSeq(s, i, i + Len(t) - 1) = t

\* to_scrapy_request has just run on exactly what to_apify_request(orig) returned
RoundTripped == out.op = "to_scrapy_request" /\ direct

\* to_apify_request has just run on the request orig
Converted == out.op = "to_apify_request" /\ IsRequest(orig)

\* to_scrapy_request has just run on the dict rec
Reconstructed == out.op = "to_scrapy_request" /\ IsDict(rec)

\* the encoded snapshot a record carries
SnapshotOf(ar) == ar["userData"].dict["scrapy_request"]

\* the userData of a request's meta, empty when it has none
UserDataOf(meta) ==
    IF "userData" \in DOMAIN meta THEN meta["userData"].dict ELSE EmptyDict

SameFields(a, b) ==
    /\ a.url = b.url
    /\ a.method = b.method
    /\ a.headers = b.headers
    /\ a.callback = b.callback
    /\ a.priority = b.priority

\* C1 as stated: for every request r, to_scrapy_request(to_apify_request(r))
\* returns a request with the url, method, headers and framework-internal
\* fields of r, the two identity meta fields alone left out of the comparison.
C1_RoundTripAnyRequest ==
    RoundTripped =>
        /\ out.raised = "none"
        /\ SameFields(req, orig)
        /\ Without(req.meta, IdentityKeys) = Without(orig.meta, IdentityKeys)

\* r already has a truthy id and unique key in its meta
Queued(r) ==
    \A k \in IdentityKeys : k \in DOMAIN r.meta /\ Truthy(r.meta[k])

\* r's headers are a Headers with exactly one value for every header
SingleValuedHeaders(r) ==
    /\ IsHeaders(r.headers)
    /\ \A k \in DOMAIN r.headers.Headers : Len(r.headers.Headers[k]) = 1

\* C1 amended: for every request r that has a truthy id and unique key in its
\* meta and a Headers with one value per header, the round trip returns a
\* request with the url, method, headers and framework-internal fields of r
\* and the meta of r on every key but 'userData'; meta['userData'] is r's
\* userData (empty when r has none) with 'scrapy_request' set to the snapshot.
C1_RoundTripQueuedRequest ==
    (RoundTripped /\ Queued(orig) /\ SingleValuedHeaders(orig)) =>
        /\ out.raised = "none"
        /\ SameFields(req, orig)
        /\ Without(req.meta, {"userData"}) = Without(orig.meta, {"userData"})
        /\ "userData" \in DOMAIN req.meta
        /\ Without(req.meta["userData"].dict, {"scrapy_request"})
              = Without(UserDataOf(orig.meta), {"scrapy_request"})
        /\ "b64" \in DOMAIN req.meta["userData"].dict["scrapy_request"]

C1_Witness ==
    /\ RoundTripped /\ Queued(orig) /\ SingleValuedHeaders(orig)
    /\ out.raised = "none"
    /\ "Accept" \in DOMAIN orig.headers.Headers
    /\ "fn" \in DOMAIN orig.callback
    /\ "depth" \in DOMAIN req.meta

\* C2 as stated: to_apify_request leaves its argument as it was, also when the
\* request's meta holds a 'userData' dict.
C2_InputUnchanged ==
    Converted => req = orig

\* C3: on a dict that lacks some of 'url', 'method', 'id', 'uniqueKey',
\* to_scrapy_request raises ValueError, returns nothing, and the message
\* names every missing key and no present one, with or without a snapshot in
\* userData; with all four present no ValueError is raised.
C3_MissingKeysNamed ==
    Reconstructed =>
        LET missing == {k \in RequiredKeySet : k \notin DOMAIN rec.dict}
        IN  IF missing # {}
            THEN /\ out.raised = "ValueError"
                 /\ req = PyNone
                 /\ \A k \in RequiredKeySet :
                        Contains(out.msg, "'" \o k \o "'") <=> k \in missing
            ELSE out.raised # "ValueError"

C3_Witness ==
    /\ Reconstructed
    /\ out.raised = "ValueError"
    /\ DOMAIN rec.dict \cap RequiredKeySet = {"url", "method"}
    /\ HasSnapshot(rec.dict)

\* C4: when to_scrapy_request succeeds on a record that carries a snapshot,
\* the request's meta identity fields are the record's 'id' and 'uniqueKey',
\* whatever the snapshot's meta held, and every other meta key of the
\* snapshot except 'userData' is as in the snapshot.
C4_IdentityOverwrite ==
    (Reconstructed /\ out.raised = "none" /\ HasSnapshot(rec.dict)) =>
        LET snapMeta == SnapshotOf(rec.dict).b64.dict.meta
            others == IdentityKeys \cup {"userData"}
        IN  /\ req.meta["apify_request_id"] = rec.dict["id"]
            /\ req.meta["apify_request_unique_key"] = rec.dict["uniqueKey"]
            /\ Without(req.meta, others) = Without(snapMeta, others)

C4_Witness ==
    /\ Reconstructed /\ out.raised = "none" /\ HasSnapshot(rec.dict)
    /\ LET snapMeta == SnapshotOf(rec.dict).b64.dict.meta
       IN  /\ "apify_request_id" \in DOMAIN snapMeta
           /\ snapMeta["apify_request_id"] = PyStr("old")
           /\ "depth" \in DOMAIN snapMeta
    /\ rec.dict["id"] = QueueId
    /\ req.meta["apify_request_id"] = QueueId

\* C5 as stated: a meta identity key that is set, whatever its value (an empty
\* string and 0 included), is copied to the record's 'id' / 'uniqueKey'; an
\* absent meta key leaves the record's key absent.
C5_PassthroughAnySetValue ==
    (Converted /\ out.raised = "none") =>
        \A p \in {<<"apify_request_id", "id">>,
                  <<"apify_request_unique_key", "uniqueKey">>} :
            IF p[1] \in DOMAIN orig.meta
            THEN p[2] \in DOMAIN rec.dict /\ rec.dict[p[2]] = orig.meta[p[1]]
            ELSE p[2] \notin DOMAIN rec.dict

\* the value counts as set for `if meta.get(key):`
SetValue(v) == v \notin {PyStr(""), PyInt(0), PyNone}

\* C5 amended: a meta identity key set to a truthy value is copied to the
\* record's 'id' / 'uniqueKey'; when the meta key is absent or holds a falsy
\* value (an empty string, 0) the record's key is absent.
C5_PassthroughTruthyValue ==
    (Converted /\ out.raised = "none") =>
        \A p \in {<<"apify_request_id", "id">>,
                  <<"apify_request_unique_key", "uniqueKey">>} :
            IF p[1] \in DOMAIN orig.meta /\ SetValue(orig.meta[p[1]])
            THEN p[2] \in DOMAIN rec.dict /\ rec.dict[p[2]] = orig.meta[p[1]]
            ELSE p[2] \notin DOMAIN rec.dict

C5_Witness ==
    /\ Converted /\ out.raised = "none"
    /\ "apify_request_id" \in DOMAIN orig.meta
    /\ orig.meta["apify_request_id"] = PyInt(0)
    /\ "apify_request_unique_key" \in DOMAIN orig.meta
    /\ orig.meta["apify_request_unique_key"] = PyStr("k0")
    /\ rec.dict["uniqueKey"] = PyStr("k0")

\* C6: when to_scrapy_request succeeds on a record that has 'userData', the
\* request's meta['userData'] is the record's userData in both branches,
\* nothing of a userData restored from the snapshot merged in; when the record
\* has none, the request (a new one) has no meta['userData'].
C6_LiveUserDataWins ==
    (Reconstructed /\ out.raised = "none") =>
        IF "userData" \in DOMAIN rec.dict
        THEN /\ "userData" \in DOMAIN req.meta
             /\ req.meta["userData"] = rec.dict["userData"]
        ELSE "userData" \notin DOMAIN req.meta

C6_Witness ==
    /\ Reconstructed /\ out.raised = "none" /\ HasSnapshot(rec.dict)
    /\ LET snapMeta == SnapshotOf(rec.dict).b64.dict.meta
       IN  /\ "userData" \in DOMAIN snapMeta
           /\ "label" \in DOMAIN snapMeta["userData"].dict
    /\ "label" \notin DOMAIN rec.dict["userData"].dict
    /\ "label" \notin DOMAIN req.meta["userData"].dict

C8_MalformedHeadersTolerated ==
    Converted =>
        /\ out.raised = "none"
        /\ {"url", "method", "userData"} \subseteq DOMAIN rec.dict
        /\ "scrapy_request" \in DOMAIN rec.dict["userData"].dict
        /\ \A p \in {<<"apify_request_id", "id">>,
                     <<"apify_request_unique_key", "uniqueKey">>} :
              (p[1] \in DOMAIN orig.meta /\ SetValue(orig.meta[p[1]]))
                  <=> p[2] \in DOMAIN rec.dict
        /\ IF IsHeaders(orig.headers)
           THEN /\ "headers" \in DOMAIN rec.dict
                /\ DOMAIN rec.dict["headers"].dict = DOMAIN orig.headers.Headers
                /\ out.warnings = 0
           ELSE /\ "headers" \notin DOMAIN rec.dict
                /\ out.warnings = 1

\* C9: to_scrapy_request raises TypeError and returns nothing for a value that
\* is no dict (never ValueError), and for a record with the four required
\* keys whose userData['scrapy_request'] is no string (no new request is made
\* in its place).
C9_TypeErrors ==
    out.op = "to_scrapy_request" =>
        /\ ~IsDict(rec) => (out.raised = "TypeError" /\ req = PyNone)
        /\ (/\ IsDict(rec)
            /\ RequiredKeySet \subseteq DOMAIN rec.dict
            /\ HasSnapshot(rec.dict)
            /\ DOMAIN SnapshotOf(rec.dict) \cap {"str", "b64"} = {})
              => (out.raised = "TypeError" /\ req = PyNone)

C9_Witness ==
    /\ Reconstructed
    /\ RequiredKeySet \subseteq DOMAIN rec.dict
    /\ HasSnapshot(rec.dict)
    /\ SnapshotOf(rec.dict) = PyInt(42)
    /\ out.raised = "TypeError"
    /\ req = PyNone

\* C10: over consecutive cycles of to_apify_request and to_scrapy_request the
\* snapshot of each cycle is taken from a request whose meta['userData'] still
\* holds the previous cycle's snapshot, so it embeds that one: after k cycles the
\* snapshots nest k deep (on top of what the run started from), and the
\* record's userData holds one 'scrapy_request' at its top level.
C10_SnapshotNesting ==
    /\ (IsRequest(req) /\ out.op \in {"new", "to_scrapy_request"}) =>
          SnapshotDepth(PyDict(UserDataOf(req.meta))) = base + cycles
    /\ (out.op \in {"to_apify_request", "enqueue"} /\ out.raised = "none") =>
          /\ "scrapy_request" \in DOMAIN rec.dict["userData"].dict
          /\ SnapshotDepth(rec.dict["userData"]) = base + cycles + 1
          /\ "scrapy_request" \in DOMAIN UserDataOf(orig.meta) =>
                UserDataOf(SnapshotOf(rec.dict).b64.dict.meta)["scrapy_request"]
                    = UserDataOf(orig.meta)["scrapy_request"]

C10_Witness ==
    /\ out.op = "to_scrapy_request" /\ out.raised = "none"
    /\ base = 0
    /\ cycles = 3
    /\ SnapshotDepth(req.meta["userData"]) = 3

====
